---- MODULE Spec2Model ----
(***************************************************************************)
(* dps-config: the DpsConfig container of src/src/lib.rs.                  *)
(*                                                                         *)
(* Representation.                                                         *)
(*   String      a sequence of Unicode scalar values (what chars() gives)  *)
(*   Vec<u8>     a sequence of bytes 0..255; an environment value (an      *)
(*               OsString) is such a sequence too                          *)
(*   Option<T>   None is <<>>, Some(v) is <<v>>                            *)
(*   u16         a natural number <= 65535                                 *)
(*   u64         three limbs <<hi, mid, lo>> in base 10^8, most            *)
(*               significant first (2^64 does not fit a TLC integer)       *)
(*   env         the process environment: variable name -> Option<bytes>   *)
(***************************************************************************)
EXTENDS Integers, Sequences, FiniteSets, TLC

VARIABLES
  env,    \* the process environment
  cfg,    \* the DpsConfig under observation (its eleven private fields)
  prev,   \* cfg as it was before the last call (history)
  op,     \* name of the last call
  arg,    \* argument list of the last call
  ret,    \* what the last call returned: <<>> for (), <<v>> for a value v
  calls   \* number of calls made since Init

vars == <<env, cfg, prev, op, arg, ret, calls>>

\* Bound on the number of calls in one behaviour.
MaxCalls == 2

-----------------------------------------------------------------------------
\* Option<T>

None == <<>>

Some(v) == <<v>>

is_some(o) == Len(o) = 1

is_none(o) == Len(o) = 0

unwrap_or(o, d) == IF Len(o) = 1 THEN o[1] ELSE d

-----------------------------------------------------------------------------
\* Integer widths

U16_MAX == 65535

LIMB == 10000 * 10000

\* u64::MAX = 18446744073709551615 as limbs 1844 | 67440737 | 09551615
U64_MAX == <<1844, 67440737, 9551615>>

\* A u64 small enough for one limb.
u64(n) == <<0, 0, n>>

u64_le(a, b) ==
  \/ a[1] < b[1]
  \/ a[1] = b[1] /\ a[2] < b[2]
  \/ a[1] = b[1] /\ a[2] = b[2] /\ a[3] <= b[3]

-----------------------------------------------------------------------------
\* String <-> bytes (UTF-8)

\* The UTF-8 encoding of one scalar value.
utf8_char(c) ==
  IF c < 128 THEN <<c>>
  ELSE IF c < 2048 THEN <<192 + (c \div 64), 128 + (c % 64)>>
  ELSE IF c < 65536
    THEN <<224 + (c \div 4096), 128 + ((c \div 64) % 64), 128 + (c % 64)>>
  ELSE <<240 + (c \div 262144), 128 + ((c \div 4096) % 64),
         128 + ((c \div 64) % 64), 128 + (c % 64)>>

RECURSIVE as_bytes_trunc(_)
\* (bug variant) every char cast to one byte, `c as u8`
as_bytes_trunc(s) ==
  IF Len(s) = 0 THEN <<>> ELSE <<Head(s) % 256>> \o as_bytes_trunc(Tail(s))

RECURSIVE as_bytes(_)
\* str::as_bytes().to_vec(): the bytes of the string, which is stored as UTF-8
as_bytes(s) ==
  IF Len(s) = 0 THEN <<>> ELSE utf8_char(Head(s)) \o as_bytes(Tail(s))

is_cont(b) == b >= 128 /\ b <= 191

RECURSIVE from_utf8(_)
\* The validation env::var applies to an OsString: [ok, val], val the String
\* when the bytes are well-formed UTF-8 (no overlong form, no surrogate,
\* nothing above U+10FFFF).
from_utf8(b) ==
  IF Len(b) = 0 THEN [ok |-> TRUE, val |-> <<>>]
  ELSE
    LET b0 == b[1]
        n == IF b0 < 128 THEN 1
             ELSE IF b0 >= 194 /\ b0 <= 223 THEN 2
             ELSE IF b0 >= 224 /\ b0 <= 239 THEN 3
             ELSE IF b0 >= 240 /\ b0 <= 244 THEN 4
             ELSE 0
        bad == [ok |-> FALSE, val |-> <<>>]
    IN IF n = 0 \/ Len(b) < n THEN bad
       ELSE IF \E i \in 2..n : ~is_cont(b[i]) THEN bad
       ELSE
         LET c == IF n = 1 THEN b0
                  ELSE IF n = 2 THEN (b0 - 192) * 64 + (b[2] - 128)
                  ELSE IF n = 3
                    THEN (b0 - 224) * 4096 + (b[2] - 128) * 64 + (b[3] - 128)
                  ELSE (b0 - 240) * 262144 + (b[2] - 128) * 4096
                       + (b[3] - 128) * 64 + (b[4] - 128)
             wrong == \/ n = 3 /\ (c < 2048 \/ (c >= 55296 /\ c <= 57343))
                      \/ n = 4 /\ (c < 65536 \/ c > 1114111)
         IN IF wrong THEN bad
            ELSE
              LET rest == from_utf8(SubSeq(b, n + 1, Len(b)))
              IN IF rest.ok THEN [ok |-> TRUE, val |-> <<c>> \o rest.val]
                 ELSE bad

-----------------------------------------------------------------------------
\* Integer parsing and formatting

is_digit(c) == c >= 48 /\ c <= 57

\* The digits parsed after the optional '+' (43); a lone sign is an error,
\* and '-' (45) is no sign for an unsigned type.
strip_plus(s) == IF Len(s) > 1 /\ s[1] = 43 THEN Tail(s) ELSE s

RECURSIVE acc_u16_wrapping(_, _)
\* (bug variant) wrapping arithmetic in place of checked arithmetic
acc_u16_wrapping(d, r) ==
  IF Len(d) = 0 THEN Some(r)
  ELSE IF ~is_digit(d[1]) THEN None
  ELSE acc_u16_wrapping(Tail(d), (r * 10 + (d[1] - 48)) % (U16_MAX + 1))

RECURSIVE acc_u16(_, _)
\* result = result.checked_mul(10)?.checked_add(digit)? over the digits
acc_u16(d, r) ==
  IF Len(d) = 0 THEN Some(r)
  ELSE IF ~is_digit(d[1]) THEN None
  ELSE LET m == r * 10 + (d[1] - 48)
       IN IF m > U16_MAX THEN None ELSE acc_u16(Tail(d), m)

\* v.parse::<u16>().ok()
parse_u16(s) ==
  IF Len(s) = 0 THEN None
  ELSE IF s = <<43>> \/ s = <<45>> THEN None
  ELSE acc_u16(strip_plus(s), 0)

RECURSIVE acc_u64(_, _)
acc_u64(d, r) ==
  IF Len(d) = 0 THEN Some(r)
  ELSE IF ~is_digit(d[1]) THEN None
  ELSE LET lo == r[3] * 10 + (d[1] - 48)
           mid == r[2] * 10 + (lo \div LIMB)
           hi == r[1] * 10 + (mid \div LIMB)
           m == <<hi, mid % LIMB, lo % LIMB>>
       IN IF ~u64_le(m, U64_MAX) THEN None ELSE acc_u64(Tail(d), m)

\* v.parse::<u64>().ok()
parse_u64(s) ==
  IF Len(s) = 0 THEN None
  ELSE IF s = <<43>> \/ s = <<45>> THEN None
  ELSE acc_u64(strip_plus(s), u64(0))

RECURSIVE fmt_u16(_)
\* Display for u16, as format!("{port}") renders it
fmt_u16(n) ==
  IF n < 10 THEN <<48 + n>> ELSE fmt_u16(n \div 10) \o <<48 + (n % 10)>>

-----------------------------------------------------------------------------
\* Environment loading

Keys ==
  { "DPS_DOMAIN", "DPS_API_SUBDOMAIN", "DPS_DEVELOPMENT_MODE",
    "DPS_AUTH_API_SUBDOMAIN", "DPS_AUTH_API_PORT", "DPS_AUTH_API_PROTOCOL",
    "DPS_AUTH_API_INSECURE_COOKIE", "DPS_AUTH_API_SQLITE_MAIN_FILE_PATH",
    "DPS_AUTH_API_SQLITE_MAIN_POOL_SIZE", "DPS_AUTH_API_SESSION_SECRET",
    "DPS_AUTH_API_SESSION_TTL_SECONDS" }

\* env::var(key): Ok(String) when the variable is set to valid Unicode,
\* Err(NotPresent) when it is not set, Err(NotUnicode) otherwise.
env_var(e, key) ==
  IF is_none(e[key]) THEN [ok |-> FALSE, val |-> <<>>]
  ELSE from_utf8(e[key][1])

\* (bug variant) without the `if !v.is_empty()` guard
load_env_string_keeps_empty(e, key) ==
  LET r == env_var(e, key) IN IF r.ok THEN Some(r.val) ELSE None

load_env_string(e, key) ==
  LET r == env_var(e, key)
  IN IF r.ok /\ Len(r.val) # 0 THEN Some(r.val) ELSE None

\* (bug variant) "Y" or "y"
load_env_bool_any_case(e, key) ==
  LET r == env_var(e, key)
  IN IF r.ok THEN Some(r.val = <<89>> \/ r.val = <<121>>) ELSE None

load_env_bool(e, key) ==
  LET r == env_var(e, key) IN IF r.ok THEN Some(r.val = <<89>>) ELSE None

\* (bug variant) the parse wraps around instead of failing
load_env_u16_wrapping(e, key) ==
  LET r == env_var(e, key)
  IN IF ~r.ok \/ Len(r.val) = 0 \/ r.val = <<43>> \/ r.val = <<45>> THEN None
     ELSE acc_u16_wrapping(strip_plus(r.val), 0)

load_env_u16(e, key) ==
  LET r == env_var(e, key) IN IF r.ok THEN parse_u16(r.val) ELSE None

load_env_u64(e, key) ==
  LET r == env_var(e, key) IN IF r.ok THEN parse_u64(r.val) ELSE None

\* DpsConfig::new()
new(e) ==
  [ domain |-> load_env_string(e, "DPS_DOMAIN"),
    api_subdomain |-> load_env_string(e, "DPS_API_SUBDOMAIN"),
    development_mode |-> load_env_bool(e, "DPS_DEVELOPMENT_MODE"),
    auth_api_subdomain |-> load_env_string(e, "DPS_AUTH_API_SUBDOMAIN"),
    auth_api_port |-> load_env_u16(e, "DPS_AUTH_API_PORT"),
    auth_api_protocol |-> load_env_string(e, "DPS_AUTH_API_PROTOCOL"),
    auth_api_insecure_cookie |-> load_env_bool(e, "DPS_AUTH_API_INSECURE_COOKIE"),
    auth_api_sqlite_main_file_path |->
      load_env_string(e, "DPS_AUTH_API_SQLITE_MAIN_FILE_PATH"),
    auth_api_sqlite_main_pool_size |->
      load_env_u16(e, "DPS_AUTH_API_SQLITE_MAIN_POOL_SIZE"),
    auth_api_session_secret |-> load_env_string(e, "DPS_AUTH_API_SESSION_SECRET"),
    auth_api_session_ttl_seconds |->
      load_env_u64(e, "DPS_AUTH_API_SESSION_TTL_SECONDS") ]

Fields ==
  { "domain", "api_subdomain", "development_mode", "auth_api_subdomain",
    "auth_api_port", "auth_api_protocol", "auth_api_insecure_cookie",
    "auth_api_sqlite_main_file_path", "auth_api_sqlite_main_pool_size",
    "auth_api_session_secret", "auth_api_session_ttl_seconds" }

-----------------------------------------------------------------------------
\* Getters and setters.  c is the container (&self); a setter yields the
\* container after the call (&mut self).

\* (bug variant) an empty domain is taken for an absent one
get_domain_empty_is_absent(c) ==
  IF is_some(c.domain) /\ Len(c.domain[1]) # 0 THEN c.domain[1]
  ELSE <<100, 112, 115, 46, 108, 111, 99, 97, 108, 104, 111, 115, 116>>

get_domain(c) ==
  \* "dps.localhost"
  unwrap_or(c.domain,
            <<100, 112, 115, 46, 108, 111, 99, 97, 108, 104, 111, 115, 116>>)

set_domain(c, value) == [c EXCEPT !.domain = Some(value)]

get_api_subdomain(c) ==
  \* "api"
  unwrap_or(c.api_subdomain, <<97, 112, 105>>)

set_api_subdomain(c, value) == [c EXCEPT !.api_subdomain = Some(value)]

get_development_mode(c) == unwrap_or(c.development_mode, FALSE)

set_development_mode(c, value) == [c EXCEPT !.development_mode = Some(value)]

get_auth_api_subdomain(c) ==
  \* "auth"
  unwrap_or(c.auth_api_subdomain, <<97, 117, 116, 104>>)

set_auth_api_subdomain(c, value) ==
  [c EXCEPT !.auth_api_subdomain = Some(value)]

get_auth_api_port(c) == c.auth_api_port

set_auth_api_port(c, value) == [c EXCEPT !.auth_api_port = value]

get_auth_api_protocol(c) ==
  \* "https"
  unwrap_or(c.auth_api_protocol, <<104, 116, 116, 112, 115>>)

set_auth_api_protocol(c, value) == [c EXCEPT !.auth_api_protocol = Some(value)]

get_auth_api_insecure_cookie(c) == unwrap_or(c.auth_api_insecure_cookie, FALSE)

\* (bug variant) copied from set_development_mode, field name not changed
set_auth_api_insecure_cookie_pasted(c, value) ==
  [c EXCEPT !.development_mode = Some(value)]

set_auth_api_insecure_cookie(c, value) ==
  [c EXCEPT !.auth_api_insecure_cookie = Some(value)]

\* (bug variant) the default of the crate's older variant
get_auth_api_sqlite_main_file_path_old_default(c) ==
  \* "data/development.db"
  unwrap_or(c.auth_api_sqlite_main_file_path,
            <<100, 97, 116, 97, 47, 100, 101, 118, 101, 108, 111, 112, 109,
              101, 110, 116, 46, 100, 98>>)

get_auth_api_sqlite_main_file_path(c) ==
  \* "data/main-development.db"
  unwrap_or(c.auth_api_sqlite_main_file_path,
            <<100, 97, 116, 97, 47, 109, 97, 105, 110, 45, 100, 101, 118, 101,
              108, 111, 112, 109, 101, 110, 116, 46, 100, 98>>)

set_auth_api_sqlite_main_file_path(c, value) ==
  [c EXCEPT !.auth_api_sqlite_main_file_path = Some(value)]

get_auth_api_sqlite_main_pool_size(c) ==
  unwrap_or(c.auth_api_sqlite_main_pool_size, 1)

\* (bug variant) None is ignored instead of clearing the field
set_auth_api_sqlite_main_pool_size_keeps(c, value) ==
  IF is_some(value) THEN [c EXCEPT !.auth_api_sqlite_main_pool_size = value]
  ELSE c

set_auth_api_sqlite_main_pool_size(c, value) ==
  [c EXCEPT !.auth_api_sqlite_main_pool_size = value]

get_auth_api_session_secret(c) == c.auth_api_session_secret

\* value.map(|s| s.to_string())
set_auth_api_session_secret(c, value) ==
  [c EXCEPT !.auth_api_session_secret =
              IF is_some(value) THEN Some(value[1]) ELSE None]

\* (bug variant) chars cast to bytes one by one
get_auth_api_session_secret_bytes_cast(c) ==
  IF is_some(c.auth_api_session_secret)
  THEN Some(as_bytes_trunc(c.auth_api_session_secret[1]))
  ELSE None

get_auth_api_session_secret_bytes(c) ==
  IF is_some(c.auth_api_session_secret)
  THEN Some(as_bytes(c.auth_api_session_secret[1]))
  ELSE None

get_auth_api_session_ttl_seconds(c) ==
  unwrap_or(c.auth_api_session_ttl_seconds, u64(1209600))

set_auth_api_session_ttl_seconds(c, value) ==
  [c EXCEPT !.auth_api_session_ttl_seconds = value]

\* (bug variant) the raw field with an empty fallback instead of get_domain()
get_api_domain_raw_field(c) ==
  get_api_subdomain(c) \o <<46>> \o unwrap_or(c.domain, <<>>)

\* format!("{}.{}", ...)
get_api_domain(c) == get_api_subdomain(c) \o <<46>> \o get_domain(c)

\* (bug variant) falls back to port 443 when no port is configured
get_auth_api_url_default_port(c) ==
  get_auth_api_protocol(c) \o <<58, 47, 47>> \o get_auth_api_subdomain(c)
    \o <<46>> \o get_api_domain(c) \o <<58>>
    \o fmt_u16(unwrap_or(c.auth_api_port, 443))

get_auth_api_url(c) ==
  LET protocol == get_auth_api_protocol(c)
      auth_sub == get_auth_api_subdomain(c)
      api_domain == get_api_domain(c)
  IN IF is_some(c.auth_api_port)
     THEN protocol \o <<58, 47, 47>> \o auth_sub \o <<46>> \o api_domain
            \o <<58>> \o fmt_u16(c.auth_api_port[1])
     ELSE protocol \o <<58, 47, 47>> \o auth_sub \o <<46>> \o api_domain

-----------------------------------------------------------------------------
\* Inputs

TextKeys ==
  { "DPS_DOMAIN", "DPS_API_SUBDOMAIN", "DPS_AUTH_API_SUBDOMAIN",
    "DPS_AUTH_API_PROTOCOL", "DPS_AUTH_API_SQLITE_MAIN_FILE_PATH",
    "DPS_AUTH_API_SESSION_SECRET" }

BoolKeys == { "DPS_DEVELOPMENT_MODE", "DPS_AUTH_API_INSECURE_COOKIE" }

U16Keys == { "DPS_AUTH_API_PORT", "DPS_AUTH_API_SQLITE_MAIN_POOL_SIZE" }

U64Keys == { "DPS_AUTH_API_SESSION_TTL_SECONDS" }

\* No variable set.
AllUnset == [k \in Keys |-> None]

\* Every variable set to a well-formed value that is not the default.
AllValid ==
  ("DPS_DOMAIN" :> Some(<<101, 120, 97, 109, 112, 108, 101, 46, 99, 111, 109>>) @@
   "DPS_API_SUBDOMAIN" :> Some(<<118, 50>>) @@
   "DPS_DEVELOPMENT_MODE" :> Some(<<89>>) @@
   "DPS_AUTH_API_SUBDOMAIN" :> Some(<<115, 115, 111>>) @@
   "DPS_AUTH_API_PORT" :> Some(<<51, 48, 48, 48>>) @@
   "DPS_AUTH_API_PROTOCOL" :> Some(<<104, 116, 116, 112>>) @@
   "DPS_AUTH_API_INSECURE_COOKIE" :> Some(<<89>>) @@
   "DPS_AUTH_API_SQLITE_MAIN_FILE_PATH" :> Some(<<100, 97, 116, 97, 47, 116, 101, 115, 116, 45, 109, 97, 105, 110, 46, 100, 98>>) @@
   "DPS_AUTH_API_SQLITE_MAIN_POOL_SIZE" :> Some(<<56>>) @@
   "DPS_AUTH_API_SESSION_SECRET" :> Some(<<115, 51, 99, 114, 51, 116>>) @@
   "DPS_AUTH_API_SESSION_TTL_SECONDS" :> Some(<<49, 56, 48, 48>>))
\* the values above: "example.com", "v2", "Y", "sso", "3000", "http", "Y", "data/test-main.db", "8", "s3cr3t", "1800"

\* Values a text variable is set to: "", "example.com", "k" U+00E9 U+20AC as
\* UTF-8, and the bytes ff fe (not UTF-8)
TextEnvValues ==
  {
    <<>>,
    <<101, 120, 97, 109, 112, 108, 101, 46, 99, 111, 109>>,
    <<107, 195, 169, 226, 130, 172>>,
    <<255, 254>> }

\* Values a boolean variable is set to: "Y", "y", "yes", "1", "true", "", and the byte c3
\* (a truncated UTF-8 sequence)
BoolEnvValues ==
  {
    <<89>>,
    <<121>>,
    <<121, 101, 115>>,
    <<49>>,
    <<116, 114, 117, 101>>,
    <<>>,
    <<195>> }

\* Values a u16 variable is set to: "8", "65535", "65536", "abc", "", "+5", "-1", "-0", "007", " 8"
U16EnvValues ==
  {
    <<56>>,
    <<54, 53, 53, 51, 53>>,
    <<54, 53, 53, 51, 54>>,
    <<97, 98, 99>>,
    <<>>,
    <<43, 53>>,
    <<45, 49>>,
    <<45, 48>>,
    <<48, 48, 55>>,
    <<32, 56>> }

\* Values the u64 variable is set to: "1800", "18446744073709551615", "18446744073709551616", "99999999999999999999", "+7", "abc", ""
U64EnvValues ==
  {
    <<49, 56, 48, 48>>,
    <<49, 56, 52, 52, 54, 55, 52, 52, 48, 55, 51, 55, 48, 57, 53, 53, 49, 54, 49, 53>>,
    <<49, 56, 52, 52, 54, 55, 52, 52, 48, 55, 51, 55, 48, 57, 53, 53, 49, 54, 49, 54>>,
    <<57, 57, 57, 57, 57, 57, 57, 57, 57, 57, 57, 57, 57, 57, 57, 57, 57, 57, 57, 57>>,
    <<43, 55>>,
    <<97, 98, 99>>,
    <<>> }

EnvValues(k) ==
  IF k \in TextKeys THEN TextEnvValues
  ELSE IF k \in BoolKeys THEN BoolEnvValues
  ELSE IF k \in U16Keys THEN U16EnvValues
  ELSE U64EnvValues

\* Arguments of the &str setters: "", "test.local", "dps.localhost"
TextArgs ==
  { <<>>,
    <<116, 101, 115, 116, 46, 108, 111, 99, 97, 108>>,
    <<100, 112, 115, 46, 108, 111, 99, 97, 108, 104, 111, 115, 116>> }

\* Arguments of set_auth_api_session_secret: None, "", "my-secret-key", and a
\* text with chars of one to four UTF-8 bytes
SecretArgs ==
  { None,
    Some(<<>>),
    Some(<<109, 121, 45, 115, 101, 99, 114, 101, 116, 45, 107, 101, 121>>),
    Some(<<107, 233, 8364, 119070>>) }

U16Args == { None, Some(0), Some(1), Some(12), Some(3000), Some(U16_MAX) }

U64Args == { None, Some(u64(0)), Some(u64(3600)), Some(U64_MAX) }

-----------------------------------------------------------------------------
\* State machine: one action per public operation of the crate, and the two
\* operations of std::env the tests use.

Init ==
  /\ env \in {AllUnset, AllValid}
  /\ cfg = new(env)
  /\ prev = cfg
  /\ op = "new"
  /\ arg = <<>>
  /\ ret = <<>>
  /\ calls = 0

\* A call named name with arguments a that returns r, leaves the container as
\* c2 and the environment as e2.
Call(name, a, r, c2, e2) ==
  /\ calls < MaxCalls
  /\ calls' = calls + 1
  /\ op' = name
  /\ arg' = a
  /\ ret' = r
  /\ prev' = cfg
  /\ cfg' = c2
  /\ env' = e2

\* let c = DpsConfig::new(): the container observed from now on
New == Call("new", <<>>, <<>>, new(env), env)

\* std::env::set_var(k, v)
set_var(k, v) == Call("set_var", <<k, v>>, <<>>, cfg, [env EXCEPT ![k] = Some(v)])

EnvSetVar == \E k \in Keys : \E v \in EnvValues(k) : set_var(k, v)

SetVar == \E k \in Keys : set_var(k, AllValid[k][1])

\* std::env::remove_var(k)
RemoveVar ==
  \E k \in Keys :
    /\ is_some(env[k])
    /\ Call("remove_var", <<k>>, <<>>, cfg, [env EXCEPT ![k] = None])

SetDomain ==
  \E v \in TextArgs : Call("set_domain", <<v>>, <<>>, set_domain(cfg, v), env)

SetApiSubdomain ==
  \E v \in TextArgs :
    Call("set_api_subdomain", <<v>>, <<>>, set_api_subdomain(cfg, v), env)

SetDevelopmentMode ==
  \E v \in BOOLEAN :
    Call("set_development_mode", <<v>>, <<>>, set_development_mode(cfg, v), env)

SetAuthApiSubdomain ==
  \E v \in TextArgs :
    Call("set_auth_api_subdomain", <<v>>, <<>>,
         set_auth_api_subdomain(cfg, v), env)

SetAuthApiPort ==
  \E v \in U16Args :
    Call("set_auth_api_port", <<v>>, <<>>, set_auth_api_port(cfg, v), env)

SetAuthApiProtocol ==
  \E v \in TextArgs :
    Call("set_auth_api_protocol", <<v>>, <<>>,
         set_auth_api_protocol(cfg, v), env)

SetAuthApiInsecureCookie ==
  \E v \in BOOLEAN :
    Call("set_auth_api_insecure_cookie", <<v>>, <<>>,
         set_auth_api_insecure_cookie(cfg, v), env)

SetAuthApiSqliteMainFilePath ==
  \E v \in TextArgs :
    Call("set_auth_api_sqlite_main_file_path", <<v>>, <<>>,
         set_auth_api_sqlite_main_file_path(cfg, v), env)

SetAuthApiSqliteMainPoolSize ==
  \E v \in U16Args :
    Call("set_auth_api_sqlite_main_pool_size", <<v>>, <<>>,
         set_auth_api_sqlite_main_pool_size(cfg, v), env)

SetAuthApiSessionSecret ==
  \E v \in SecretArgs :
    Call("set_auth_api_session_secret", <<v>>, <<>>,
         set_auth_api_session_secret(cfg, v), env)

SetAuthApiSessionTtlSeconds ==
  \E v \in U64Args :
    Call("set_auth_api_session_ttl_seconds", <<v>>, <<>>,
         set_auth_api_session_ttl_seconds(cfg, v), env)

\* A getter takes &self: the container and the environment stay as they are.
Get(name, r) == Call(name, <<>>, <<r>>, cfg, env)

GetDomain == Get("get_domain", get_domain(cfg))

GetApiSubdomain == Get("get_api_subdomain", get_api_subdomain(cfg))

GetDevelopmentMode == Get("get_development_mode", get_development_mode(cfg))

GetAuthApiSubdomain == Get("get_auth_api_subdomain", get_auth_api_subdomain(cfg))

GetAuthApiPort == Get("get_auth_api_port", get_auth_api_port(cfg))

GetAuthApiProtocol == Get("get_auth_api_protocol", get_auth_api_protocol(cfg))

GetAuthApiInsecureCookie ==
  Get("get_auth_api_insecure_cookie", get_auth_api_insecure_cookie(cfg))

GetAuthApiSqliteMainFilePath ==
  Get("get_auth_api_sqlite_main_file_path",
      get_auth_api_sqlite_main_file_path(cfg))

GetAuthApiSqliteMainPoolSize ==
  Get("get_auth_api_sqlite_main_pool_size",
      get_auth_api_sqlite_main_pool_size(cfg))

GetAuthApiSessionSecret ==
  Get("get_auth_api_session_secret", get_auth_api_session_secret(cfg))

GetAuthApiSessionSecretBytes ==
  Get("get_auth_api_session_secret_bytes",
      get_auth_api_session_secret_bytes(cfg))

GetAuthApiSessionTtlSeconds ==
  Get("get_auth_api_session_ttl_seconds", get_auth_api_session_ttl_seconds(cfg))

GetApiDomain == Get("get_api_domain", get_api_domain(cfg))

GetAuthApiUrl == Get("get_auth_api_url", get_auth_api_url(cfg))

Getters ==
  \/ GetDomain
  \/ GetApiSubdomain
  \/ GetDevelopmentMode
  \/ GetAuthApiSubdomain
  \/ GetAuthApiPort
  \/ GetAuthApiProtocol
  \/ GetAuthApiInsecureCookie
  \/ GetAuthApiSqliteMainFilePath
  \/ GetAuthApiSqliteMainPoolSize
  \/ GetAuthApiSessionSecret
  \/ GetAuthApiSessionSecretBytes
  \/ GetAuthApiSessionTtlSeconds
  \/ GetApiDomain
  \/ GetAuthApiUrl

Setters ==
  \/ SetDomain
  \/ SetApiSubdomain
  \/ SetDevelopmentMode
  \/ SetAuthApiSubdomain
  \/ SetAuthApiPort
  \/ SetAuthApiProtocol
  \/ SetAuthApiInsecureCookie
  \/ SetAuthApiSqliteMainFilePath
  \/ SetAuthApiSqliteMainPoolSize
  \/ SetAuthApiSessionSecret
  \/ SetAuthApiSessionTtlSeconds

\* A container in use: setters and getters, while the environment changes
\* under it and containers are built anew.
Next == Setters \/ Getters \/ SetVar \/ RemoveVar \/ New

Spec == Init /\ [][Next]_vars

\* Construction from the environment: the variables take well-formed,
\* malformed, empty and non-Unicode values, and new() reads them.
NextEnv == EnvSetVar \/ RemoveVar \/ New \/ Getters

SpecEnv == Init /\ [][NextEnv]_vars

-----------------------------------------------------------------------------
\* Texts the properties name

Txt_dps_localhost == <<100, 112, 115, 46, 108, 111, 99, 97, 108, 104, 111, 115, 116>>

Txt_api == <<97, 112, 105>>

Txt_auth == <<97, 117, 116, 104>>

Txt_https == <<104, 116, 116, 112, 115>>

Txt_main_development_db ==
  <<100, 97, 116, 97, 47, 109, 97, 105, 110, 45, 100, 101, 118, 101, 108,
  111, 112, 109, 101, 110, 116, 46, 100, 98>>

\* "https://auth.api.dps.localhost:3000"
Txt_default_url_3000 ==
  <<104, 116, 116, 112, 115, 58, 47, 47, 97, 117, 116, 104, 46, 97, 112,
  105, 46, 100, 112, 115, 46, 108, 111, 99, 97, 108, 104, 111, 115, 116, 58,
  51, 48, 48, 48>>

\* "18446744073709551615"
Txt_u64_max ==
  <<49, 56, 52, 52, 54, 55, 52, 52, 48, 55, 51, 55, 48, 57, 53, 53, 49, 54,
  49, 53>>

\* Decimal numerals, read independently of the parser and the formatter.

IsDigits(d) == Len(d) > 0 /\ \A i \in 1..Len(d) : d[i] >= 48 /\ d[i] <= 57

\* The numeral without an explicit plus sign.
Unsigned(b) == IF Len(b) > 0 /\ b[1] = 43 THEN Tail(b) ELSE b

RECURSIVE StripZeros(_)
StripZeros(d) == IF Len(d) > 1 /\ d[1] = 48 THEN StripZeros(Tail(d)) ELSE d

RECURSIVE NumeralValue(_)
\* The number a digit string of at most eight digits denotes.
NumeralValue(d) ==
  IF Len(d) = 0 THEN 0
  ELSE (d[Len(d)] - 48) + 10 * NumeralValue(SubSeq(d, 1, Len(d) - 1))

\* a <= b for digit strings of one length
NumeralLe(a, b) ==
  \/ a = b
  \/ \E i \in 1..Len(a) : a[i] < b[i] /\ \A j \in 1..(i - 1) : a[j] = b[j]

Zeros(n) == [i \in 1..n |-> 48]

\* What a u16 field holds after new() when its variable is v (Option<bytes>).
ExpectedU16(v) ==
  IF is_none(v) THEN None
  ELSE LET d == Unsigned(v[1])
       IN IF ~IsDigits(d) THEN None
          ELSE LET c == StripZeros(d)
               IN IF Len(c) > 5 THEN None
                  ELSE IF NumeralValue(c) > 65535 THEN None
                  ELSE Some(NumeralValue(c))

\* What the u64 field holds after new() when its variable is v.
ExpectedU64(v) ==
  IF is_none(v) THEN None
  ELSE LET d == Unsigned(v[1])
       IN IF ~IsDigits(d) THEN None
          ELSE LET c == StripZeros(d)
               IN IF Len(c) > 20 THEN None
                  ELSE IF Len(c) = 20 /\ ~NumeralLe(c, Txt_u64_max) THEN None
                  ELSE LET p == Zeros(24 - Len(c)) \o c
                       IN Some(<<NumeralValue(SubSeq(p, 1, 8)),
                                 NumeralValue(SubSeq(p, 9, 16)),
                                 NumeralValue(SubSeq(p, 17, 24))>>)

-----------------------------------------------------------------------------
\* Properties

\* C1: after a setter is called with a present value v (the empty text, 0 and
\* false included), the field's getter returns exactly v, whatever the field
\* held before; the default is never substituted for a present value.
C1_SetThenGet ==
  /\ op = "set_domain" => get_domain(cfg) = arg[1]
  /\ op = "set_api_subdomain" => get_api_subdomain(cfg) = arg[1]
  /\ op = "set_development_mode" => get_development_mode(cfg) = arg[1]
  /\ op = "set_auth_api_subdomain" => get_auth_api_subdomain(cfg) = arg[1]
  /\ op = "set_auth_api_protocol" => get_auth_api_protocol(cfg) = arg[1]
  /\ op = "set_auth_api_insecure_cookie" =>
       get_auth_api_insecure_cookie(cfg) = arg[1]
  /\ op = "set_auth_api_sqlite_main_file_path" =>
       get_auth_api_sqlite_main_file_path(cfg) = arg[1]
  /\ op = "set_auth_api_port" /\ is_some(arg[1]) =>
       get_auth_api_port(cfg) = Some(arg[1][1])
  /\ op = "set_auth_api_sqlite_main_pool_size" /\ is_some(arg[1]) =>
       get_auth_api_sqlite_main_pool_size(cfg) = arg[1][1]
  /\ op = "set_auth_api_session_secret" /\ is_some(arg[1]) =>
       get_auth_api_session_secret(cfg) = Some(arg[1][1])
  /\ op = "set_auth_api_session_ttl_seconds" /\ is_some(arg[1]) =>
       get_auth_api_session_ttl_seconds(cfg) = arg[1][1]

\* The empty text was set over a domain loaded from the environment.
C1_Witness ==
  /\ op = "set_domain"
  /\ arg = <<(<<>>)>>
  /\ is_some(prev.domain)
  /\ Len(prev.domain[1]) > 0
  /\ env["DPS_DOMAIN"] = Some(as_bytes(prev.domain[1]))

\* C2: a container built by new() with no variable set, and no setter called
\* on it, returns the documented defaults, and reports the port, the session
\* secret and the secret's bytes absent.  In every state the nine other
\* getters return a value: the default whenever the field is absent.
C2_Defaults ==
  /\ (op = "new" /\ env = AllUnset) =>
       /\ get_domain(cfg) = Txt_dps_localhost
       /\ get_api_subdomain(cfg) = Txt_api
       /\ get_development_mode(cfg) = FALSE
       /\ get_auth_api_subdomain(cfg) = Txt_auth
       /\ get_auth_api_protocol(cfg) = Txt_https
       /\ get_auth_api_insecure_cookie(cfg) = FALSE
       /\ get_auth_api_sqlite_main_file_path(cfg) = Txt_main_development_db
       /\ get_auth_api_sqlite_main_pool_size(cfg) = 1
       /\ get_auth_api_session_ttl_seconds(cfg) = <<0, 0, 1209600>>
       /\ get_auth_api_port(cfg) = None
       /\ get_auth_api_session_secret(cfg) = None
       /\ get_auth_api_session_secret_bytes(cfg) = None
  /\ is_none(cfg.domain) => get_domain(cfg) = Txt_dps_localhost
  /\ is_none(cfg.api_subdomain) => get_api_subdomain(cfg) = Txt_api
  /\ is_none(cfg.development_mode) => get_development_mode(cfg) = FALSE
  /\ is_none(cfg.auth_api_subdomain) => get_auth_api_subdomain(cfg) = Txt_auth
  /\ is_none(cfg.auth_api_protocol) => get_auth_api_protocol(cfg) = Txt_https
  /\ is_none(cfg.auth_api_insecure_cookie) =>
       get_auth_api_insecure_cookie(cfg) = FALSE
  /\ is_none(cfg.auth_api_sqlite_main_file_path) =>
       get_auth_api_sqlite_main_file_path(cfg) = Txt_main_development_db
  /\ is_none(cfg.auth_api_sqlite_main_pool_size) =>
       get_auth_api_sqlite_main_pool_size(cfg) = 1
  /\ is_none(cfg.auth_api_session_ttl_seconds) =>
       get_auth_api_session_ttl_seconds(cfg) = <<0, 0, 1209600>>
  /\ is_none(get_auth_api_port(cfg)) <=> is_none(cfg.auth_api_port)
  /\ is_none(get_auth_api_session_secret(cfg)) <=>
       is_none(cfg.auth_api_session_secret)
  /\ is_none(get_auth_api_session_secret_bytes(cfg)) <=>
       is_none(cfg.auth_api_session_secret)

\* new() ran with no variable set, after a container that held other values.
C2_Witness ==
  /\ op = "new"
  /\ calls > 0
  /\ env = AllUnset
  /\ prev # cfg

\* C3: the URL is protocol "://" auth-subdomain "." api-domain, followed by
\* ":" and the port in decimal exactly when the port is present, and by
\* nothing when it is absent.
C3_AuthApiUrl ==
  LET url == get_auth_api_url(cfg)
      head == get_auth_api_protocol(cfg) \o <<58, 47, 47>>
                \o get_auth_api_subdomain(cfg) \o <<46>> \o get_api_domain(cfg)
      port == get_auth_api_port(cfg)
      rest == SubSeq(url, Len(head) + 1, Len(url))
  IN /\ Len(url) >= Len(head)
     /\ SubSeq(url, 1, Len(head)) = head
     /\ is_none(port) => Len(rest) = 0
     /\ is_some(port) =>
          /\ Len(rest) >= 2
          /\ rest[1] = 58
          /\ IsDigits(Tail(rest))
          /\ StripZeros(Tail(rest)) = Tail(rest)
          /\ Len(rest) <= 6
          /\ NumeralValue(Tail(rest)) = port[1]
     /\ op = "get_auth_api_url" => ret = <<url>>

\* Port 3000 was set on a container that had no port; everything else is the
\* default.
C3_Witness ==
  /\ op = "set_auth_api_port"
  /\ arg = <<Some(3000)>>
  /\ is_none(prev.auth_api_port)
  /\ get_auth_api_url(cfg) = Txt_default_url_3000

\* C4: the API domain is the API subdomain, a dot, and the domain, as the
\* fields are now: right after set_domain(v) it ends in v, right after
\* set_api_subdomain(v) it starts with v, and a get_api_domain call returns
\* the value of the current fields.
C4_ApiDomain ==
  LET d == get_api_domain(cfg)
  IN /\ d = get_api_subdomain(cfg) \o <<46>> \o get_domain(cfg)
     /\ Len(d) >= 1
     /\ op = "set_domain" => d = get_api_subdomain(prev) \o <<46>> \o arg[1]
     /\ op = "set_api_subdomain" => d = arg[1] \o <<46>> \o get_domain(prev)
     /\ op = "get_api_domain" => ret = <<d>>
     /\ is_none(cfg.domain) /\ is_none(cfg.api_subdomain) =>
          d = Txt_api \o <<46>> \o Txt_dps_localhost

\* set_domain changed the API domain of a container whose domain was absent.
C4_Witness ==
  /\ op = "set_domain"
  /\ Len(arg[1]) > 0
  /\ is_none(prev.domain)
  /\ get_api_domain(prev) # get_api_domain(cfg)

\* C5: after a setter of an optional value is called with None, the getter
\* returns what it returns for an absent field: None for the port and the
\* secret, 1 for the pool size, 1209600 for the TTL.
C5_ClearRestoresDefault ==
  /\ op = "set_auth_api_port" /\ is_none(arg[1]) =>
       get_auth_api_port(cfg) = None
  /\ op = "set_auth_api_session_secret" /\ is_none(arg[1]) =>
       /\ get_auth_api_session_secret(cfg) = None
       /\ get_auth_api_session_secret_bytes(cfg) = None
  /\ op = "set_auth_api_sqlite_main_pool_size" /\ is_none(arg[1]) =>
       get_auth_api_sqlite_main_pool_size(cfg) = 1
  /\ op = "set_auth_api_session_ttl_seconds" /\ is_none(arg[1]) =>
       get_auth_api_session_ttl_seconds(cfg) = <<0, 0, 1209600>>

\* The pool size was cleared while it held a value other than the default.
C5_Witness ==
  /\ op = "set_auth_api_sqlite_main_pool_size"
  /\ arg = <<None>>
  /\ is_some(prev.auth_api_sqlite_main_pool_size)
  /\ get_auth_api_sqlite_main_pool_size(prev) # 1

\* C6: the secret's bytes are absent exactly when the secret is absent, and
\* otherwise they are the UTF-8 encoding of the secret: well-formed bytes that
\* decode to exactly the secret's text.
C6_SecretBytes ==
  LET s == get_auth_api_session_secret(cfg)
      b == get_auth_api_session_secret_bytes(cfg)
  IN /\ is_none(b) <=> is_none(s)
     /\ is_some(s) =>
          /\ \A i \in 1..Len(b[1]) : b[1][i] >= 0 /\ b[1][i] <= 255
          /\ from_utf8(b[1]) = [ok |-> TRUE, val |-> s[1]]
     /\ op = "get_auth_api_session_secret_bytes" => ret = <<b>>

\* A secret with chars of several bytes was set: more bytes than chars.
C6_Witness ==
  /\ op = "set_auth_api_session_secret"
  /\ is_some(arg[1])
  /\ is_some(get_auth_api_session_secret_bytes(cfg))
  /\ Len(get_auth_api_session_secret_bytes(cfg)[1]) > Len(arg[1][1])

\* C7: a boolean getter of a container just built by new() returns true
\* exactly when the variable's raw value is "Y"; any other value, and an
\* unset variable, give false.
C7_BoolEnv ==
  op = "new" =>
    /\ get_development_mode(cfg) = (env["DPS_DEVELOPMENT_MODE"] = Some(<<89>>))
    /\ get_auth_api_insecure_cookie(cfg) =
         (env["DPS_AUTH_API_INSECURE_COOKIE"] = Some(<<89>>))

\* new() read "yes" for one flag and "Y" for the other.
C7_Witness ==
  /\ op = "new"
  /\ calls > 0
  /\ env["DPS_DEVELOPMENT_MODE"] = Some(<<121, 101, 115>>)
  /\ ~get_development_mode(cfg)
  /\ env["DPS_AUTH_API_INSECURE_COOKIE"] = Some(<<89>>)
  /\ get_auth_api_insecure_cookie(cfg)

\* C8: after new(), an integer field whose variable holds a decimal numeral
\* (digits, with an optional plus sign) in the field's range holds that
\* number; a variable that is unset, not such a numeral or out of range
\* leaves the field absent, so the getters give None, 1 and 1209600.
C8_IntEnv ==
  op = "new" =>
    LET port == ExpectedU16(env["DPS_AUTH_API_PORT"])
        pool == ExpectedU16(env["DPS_AUTH_API_SQLITE_MAIN_POOL_SIZE"])
        ttl == ExpectedU64(env["DPS_AUTH_API_SESSION_TTL_SECONDS"])
    IN /\ get_auth_api_port(cfg) = port
       /\ get_auth_api_sqlite_main_pool_size(cfg) =
            (IF is_some(pool) THEN pool[1] ELSE 1)
       /\ get_auth_api_session_ttl_seconds(cfg) =
            (IF is_some(ttl) THEN ttl[1] ELSE <<0, 0, 1209600>>)

\* new() read "65536" for the port, where the container before had a port.
C8_Witness ==
  /\ op = "new"
  /\ calls > 0
  /\ env["DPS_AUTH_API_PORT"] = Some(<<54, 53, 53, 51, 54>>)
  /\ is_none(get_auth_api_port(cfg))
  /\ is_some(prev.auth_api_port)

TextFieldOf ==
  [ DPS_DOMAIN |-> "domain",
    DPS_API_SUBDOMAIN |-> "api_subdomain",
    DPS_AUTH_API_SUBDOMAIN |-> "auth_api_subdomain",
    DPS_AUTH_API_PROTOCOL |-> "auth_api_protocol",
    DPS_AUTH_API_SQLITE_MAIN_FILE_PATH |-> "auth_api_sqlite_main_file_path",
    DPS_AUTH_API_SESSION_SECRET |-> "auth_api_session_secret" ]

\* The getter of a text field, as an Option (the secret's getter returns one).
TextGetter(c, f) ==
  IF f = "domain" THEN Some(get_domain(c))
  ELSE IF f = "api_subdomain" THEN Some(get_api_subdomain(c))
  ELSE IF f = "auth_api_subdomain" THEN Some(get_auth_api_subdomain(c))
  ELSE IF f = "auth_api_protocol" THEN Some(get_auth_api_protocol(c))
  ELSE IF f = "auth_api_sqlite_main_file_path"
    THEN Some(get_auth_api_sqlite_main_file_path(c))
  ELSE get_auth_api_session_secret(c)

\* C9: after new(), a text variable set to "" leaves its field absent, and
\* the container equals the one built with the variable unset; a variable
\* set to a non-empty text gives a getter that returns that text.
C9_EmptyIsUnset ==
  op = "new" =>
    \A k \in TextKeys :
      LET f == TextFieldOf[k]
      IN /\ env[k] = Some(<<>>) =>
              /\ is_none(cfg[f])
              /\ cfg = new([env EXCEPT ![k] = None])
              /\ TextGetter(cfg, f) = TextGetter(new(AllUnset), f)
         /\ (is_some(env[k]) /\ Len(env[k][1]) > 0 /\ from_utf8(env[k][1]).ok) =>
              /\ is_some(TextGetter(cfg, f))
              /\ as_bytes(TextGetter(cfg, f)[1]) = env[k][1]

\* new() read "" for the domain, where the container before had a domain.
C9_Witness ==
  /\ op = "new"
  /\ calls > 0
  /\ env["DPS_DOMAIN"] = Some(<<>>)
  /\ is_some(prev.domain)
  /\ get_domain(cfg) = Txt_dps_localhost

SetterOf ==
  [ domain |-> "set_domain",
    api_subdomain |-> "set_api_subdomain",
    development_mode |-> "set_development_mode",
    auth_api_subdomain |-> "set_auth_api_subdomain",
    auth_api_port |-> "set_auth_api_port",
    auth_api_protocol |-> "set_auth_api_protocol",
    auth_api_insecure_cookie |-> "set_auth_api_insecure_cookie",
    auth_api_sqlite_main_file_path |-> "set_auth_api_sqlite_main_file_path",
    auth_api_sqlite_main_pool_size |-> "set_auth_api_sqlite_main_pool_size",
    auth_api_session_secret |-> "set_auth_api_session_secret",
    auth_api_session_ttl_seconds |-> "set_auth_api_session_ttl_seconds" ]

\* C10: in a step that does not build a new container, a field changes only
\* if the step is a call of that field's setter; a step that changes the
\* environment is set_var or remove_var and leaves the container as it is.
C10_Frame ==
  [][ /\ op' # "new" =>
           \A f \in Fields : cfg'[f] # cfg[f] => op' = SetterOf[f]
      /\ env' # env => (cfg' = cfg /\ op' \in {"set_var", "remove_var"})
    ]_vars

\* The environment was changed under a container, which now differs from
\* what new() would build.
C10_Witness ==
  /\ op \in {"set_var", "remove_var"}
  /\ cfg = prev
  /\ cfg # new(env)

====
